---- MODULE Spec2Model ----
(***************************************************************************)
(* The integrated build-job subsystem of LocalSignTool.                    *)
(*                                                                         *)
(*   src/src/builders/integrated_job.go  ProcessIntegratedJob, the body    *)
(*                                       the builder's worker runs         *)
(*   src/src/signing/cli.go              performSynchronousSigning and     *)
(*                                       processIntegratedJobDirectly, the *)
(*                                       synchronous caller (Wait Loop)    *)
(*                                                                         *)
(* The job storage (storage.Jobs) and the integrated builder               *)
(* (builders.Integrated) are used by that code but their source is not     *)
(* part of src/; they are modelled from spec.md sections 4.3 and 9.        *)
(*                                                                         *)
(* Every call on the shared storage or on the builder is one atomic step;  *)
(* the goroutines (callers, worker, the external entrypoint) interleave    *)
(* between such steps.                                                     *)
(***************************************************************************)
EXTENDS Integers, Sequences, FiniteSets, TLC

\* ---------------------------------------------------------------- bounds
NApps == 2        \* applications; each has one synchronous caller
MaxWorkers == 2   \* goroutine slots a builder could start workers in
MaxPolls == 2     \* maxWaitTime measured in poll intervals
MaxJobs == 4      \* job ids the queue hands out in QueueSpec

\* ------------------------------------------------------ program constants
TriggerCap == 1   \* pending runs the trigger signal can hold (spec 4.3)

Apps == 1..NApps
Callers == Apps
Workers == 1..MaxWorkers
NoFn == {}        \* no closure installed
NoId == <<>>      \* the empty string

VARIABLES
  signJobs,      \* storage.Jobs: pending sign jobs, oldest first (app ids)
  returnJobs,    \* storage.Jobs: queue entries (return jobs) [id, appId]
  nextJobId,     \* storage.Jobs: next fresh job id
  signed,        \* storage.Apps: app has its "signed" file
  bundle,        \* storage.Apps: app has its "bundle_id" string
  processJobFn,  \* Integrated: the installed closure {its caller}, or NoFn
  triggerQ,      \* Integrated: runs signalled and not yet started
  wk,            \* per worker goroutine: position and locals of the attempt
  sandboxes,     \* temp directories that exist, by the worker that made them
  cst,           \* per synchronous caller: position, polls, result
  twoFactorCode, \* ReturnJob.TwoFactorCode: job id -> the code, where set
  archiveBuffer, \* archive codec: the bytes handed to the codec
  extractedId,   \* archive codec: what extractJobIdFromArchive returned
  jobReader,     \* archive codec: the entries the tar reader has not read yet
  tree,          \* archive codec: the directories and files that exist
  untarErr,      \* archive codec: how the unpacking stands
  attrs,         \* archive codec: path -> permission bits and content
  umask,         \* archive codec: the file mode creation mask of the process
  signFiles,     \* archive codec: the builder's sign files, copied first
  cmdState,      \* process runner: the entrypoint process
  written,       \* process runner: the lines the entrypoint has written
  pipe,          \* process runner: per stream, the lines not yet read
  pipeClosed,    \* process runner: cmd.Wait has closed the read ends
  drain,         \* process runner: per stream, the goroutine reading it
  capture,       \* process runner: outputBuffer, a sequence of lines
  runner,        \* process runner: position and error of the caller of Wait
  elapsed,       \* wait loop: milliseconds since startTime
  last2FACheck,  \* wait loop: when the relay slot was last looked at
  twoFAMessageShown,  \* wait loop: the flag of the same name
  logged         \* wait loop: the 2FA messages written to the log

codecVars ==
  <<archiveBuffer, extractedId, jobReader, tree, untarErr, attrs, umask,
    signFiles>>
runnerVars ==
  <<cmdState, written, pipe, pipeClosed, drain, capture, runner>>
waitVars == <<elapsed, last2FACheck, twoFAMessageShown, logged>>

vars == <<signJobs, returnJobs, nextJobId, signed, bundle, processJobFn,
          triggerQ, wk, sandboxes, cst, twoFactorCode, codecVars, runnerVars,
          waitVars>>

storageVars == <<signJobs, returnJobs, nextJobId>>
appVars == <<signed, bundle>>
builderVars == <<processJobFn, triggerQ>>

Range(s) == {s[i] : i \in DOMAIN s}

\* ------------------------------------------------------------- archives
\* An archive is a sequence of entries; a stream cut off inside an entry
\* ends with an entry that is not complete.
\* dir: the header's Typeflag is tar.TypeDir.  huge: the header's Size is
\* beyond what a byte slice can have (the stream holds less, of course).
\* mode: the permission bits of the header, as the set of the bits set.
Mode600 == {"ur", "uw"}
Mode644 == {"ur", "uw", "gr", "or"}
Mode666 == {"ur", "uw", "gr", "gw", "or", "ow"}
Mode700 == {"ur", "uw", "ux"}
Mode755 == {"ur", "uw", "ux", "gr", "gx", "or", "ox"}

Entry(n, p, c) ==
  [name |-> n, payload |-> p, complete |-> c, dir |-> FALSE, huge |-> FALSE,
   mode |-> Mode644]
DirEntry(n) == [Entry(n, <<>>, TRUE) EXCEPT !.dir = TRUE, !.mode = Mode755]
WithMode(e, m) == [e EXCEPT !.mode = m]
HugeEntry(n) == [Entry(n, <<>>, FALSE) EXCEPT !.huge = TRUE]

\* The call did not return: the goroutine panicked.
Panic == <<"panic: makeslice: len out of range">>

\* util.TrimWhitespace on a string of tokens: strips leading and trailing " ".
RECURSIVE TrimLeft(_)
TrimLeft(s) == IF s # <<>> /\ Head(s) = " " THEN TrimLeft(Tail(s)) ELSE s

RECURSIVE TrimRight(_)
TrimRight(s) ==
  IF s # <<>> /\ s[Len(s)] = " " THEN TrimRight(SubSeq(s, 1, Len(s) - 1)) ELSE s

TrimWhitespace(s) == TrimRight(TrimLeft(s))

\* integrated_job.go:61-65  idBuf := make([]byte, header.Size) panics when
\* the size is out of range; io.ReadFull fails on a short payload (break).
IdBuf(h) ==
  IF h.huge THEN Panic ELSE IF h.complete THEN h.payload ELSE NoId

\* integrated_job.go:47-73.  tr.Next() fails on a cut-off stream (break);
\* "" when id.txt is not found or cannot be read in full.
RECURSIVE extractJobIdFromArchive(_)
extractJobIdFromArchive(ar) ==
  IF ar = <<>> THEN NoId
  ELSE LET h == Head(ar) IN
       IF h.name = "id.txt"
       THEN IF IdBuf(h) = Panic THEN Panic ELSE TrimWhitespace(IdBuf(h))
       ELSE IF ~h.complete THEN NoId
       ELSE extractJobIdFromArchive(Tail(ar))

\* The inbound archive of a job: id.txt and the job's control files.
JobArchive(id, a) ==
  << Entry("id.txt", id, TRUE), Entry("job.txt", <<ToString(a)>>, TRUE) >>

\* What has reached the reader when serialisation fails after k whole
\* entries, the next one cut off or not started.
CutArchive(ar, k, cut) ==
  SubSeq(ar, 1, k) \o
  (IF cut THEN << [ar[k + 1] EXCEPT !.complete = FALSE] >> ELSE <<>>)

\* ------------------------------------------- unpacking into the sandbox
\* A path is the sequence of its components below the root directory.
WorkDir == <<"tmp", "ios-signer-integrated-1">>

\* An entry name split at the separators.
Components(name) ==
  CASE name = "id.txt" -> <<"id.txt">>
    [] name = "job.txt" -> <<"job.txt">>
    [] name = "sub" -> <<"sub">>
    [] name = "sub/a.txt" -> <<"sub", "a.txt">>
    [] name = "sub/../b.txt" -> <<"sub", "..", "b.txt">>
    [] name = "../evil.txt" -> <<"..", "evil.txt">>
    [] name = "../../etc" -> <<"..", "..", "etc">>
    [] name = "/abs.txt" -> <<"", "abs.txt">>

\* filepath.Clean of a rooted path: "" and "." are dropped, ".." removes
\* the component before it and is dropped at the root.
RECURSIVE CleanOnto(_, _)
CleanOnto(done, rest) ==
  IF rest = <<>> THEN done
  ELSE LET c == Head(rest) IN
       IF c = "" \/ c = "." THEN CleanOnto(done, Tail(rest))
       ELSE IF c = ".."
            THEN CleanOnto(IF done = <<>> THEN done
                           ELSE SubSeq(done, 1, Len(done) - 1), Tail(rest))
            ELSE CleanOnto(Append(done, c), Tail(rest))

\* integrated_job.go:172  filepath.Join(workDir, header.Name)
Join(dir, name) == CleanOnto(<<>>, dir \o Components(name))

\* filepath.Dir
Dir(path) == IF path = <<>> THEN path ELSE SubSeq(path, 1, Len(path) - 1)

Prefixes(path) == {SubSeq(path, 1, k) : k \in 0..Len(path)}
Node(path, isDir) == [path |-> path, dir |-> isDir]

\* The directories that exist before the unpacking: the sandbox and the
\* directories above it.
PreExisting == {Node(q, TRUE) : q \in Prefixes(WorkDir)}

Inside(path) ==
  Len(path) >= Len(WorkDir) /\ SubSeq(path, 1, Len(WorkDir)) = WorkDir

\* os.MkdirAll: fails when a component of the path is a file.
MkdirAllOk(t, path) == \A q \in Prefixes(path) : Node(q, FALSE) \notin t
MkdirAll(t, path) == t \cup {Node(q, TRUE) : q \in Prefixes(path)}

\* Permission bits and content of a file or directory.
FileAttr(m, d) == [mode |-> m, data |-> d]

\* os.MkdirAll(path, perm): the directories it creates get perm less the
\* umask; the ones that exist keep what they have.
AttrsMkdirAll(at, path, m, um) ==
  [q \in DOMAIN at \cup Prefixes(path) |->
     IF q \in DOMAIN at THEN at[q] ELSE FileAttr(m \ um, <<>>)]

\* os.OpenFile(path, O_CREATE|O_WRONLY|O_TRUNC, perm): a directory cannot
\* be opened for writing, nor a file the owner may not write; a new file
\* gets perm less the umask, an existing one is truncated and keeps its
\* permission bits.
OpenFileOk(t, at, path) ==
  /\ Node(path, TRUE) \notin t
  /\ Node(path, FALSE) \in t => "uw" \in at[path].mode
AttrsOpenFile(at, path, m, um) ==
  [q \in DOMAIN at \cup {path} |->
     IF q # path THEN at[q]
     ELSE FileAttr(IF path \in DOMAIN at THEN at[path].mode ELSE m \ um, <<>>)]

\* io.Copy(file, tr): the payload, as far as the stream has it.
AttrsWrite(at, path, h) ==
  [at EXCEPT ![path].data = IF h.complete THEN h.payload ELSE <<>>]

\* The sandbox right after os.MkdirTemp.
PreAttrs ==
  [q \in Prefixes(WorkDir) |->
     FileAttr(IF q = WorkDir THEN Mode700 ELSE Mode755, <<>>)]

\* integrated_job.go:157  dirCopy.Copy(signFilesDir, workDir): the sign
\* files are in the sandbox before the archive is unpacked.
NoSignFiles == [n \in {} |-> FileAttr({}, <<>>)]
SignFileTrees ==
  { NoSignFiles, [n \in {"job.txt"} |-> FileAttr(Mode600, <<"old">>)] }
TreeWith(sf) == PreExisting \cup {Node(Join(WorkDir, n), FALSE) : n \in DOMAIN sf}
AttrsWith(sf) ==
  [q \in DOMAIN PreAttrs \cup {Join(WorkDir, n) : n \in DOMAIN sf} |->
     IF q \in DOMAIN PreAttrs THEN PreAttrs[q]
     ELSE sf[CHOOSE n \in DOMAIN sf : Join(WorkDir, n) = q]]

Umasks == { {}, {"gw", "ow"} }

\* ------------------------------------------------- job storage (spec 4.3)
\* A job id as the text written to id.txt.
JobIdString(n) == <<ToString(n)>>

GetById(id) == {e \in returnJobs : e.id = id}
GetByAppId(a) == {e \in returnJobs : e.appId = a}
Pending(a) == a \in Range(signJobs)

\* GetStatusByAppId: (pending, exists)
GetStatusByAppId(a) ==
  IF Pending(a) THEN <<TRUE, TRUE>>
  ELSE IF GetByAppId(a) # {} THEN <<FALSE, TRUE>>
  ELSE <<FALSE, FALSE>>

\* MakeSignJob: pending jobs are keyed by application id.
MakeSignJob(q, a) == SelectSeq(q, LAMBDA x : x # a) \o <<a>>

\* DeleteById: removes the entry if present; reports whether it did.
DeleteById(jobs, id) == {e \in jobs : e.id # id}

\* A delete that reports success whether or not the entry was there.
DeleteByIdAlwaysTrue(jobs, id) == TRUE

\* The bool DeleteById returns (integrated_job.go:26).
DeleteByIdResult(jobs, id) == \E e \in jobs : e.id = id


\* A take-next that registers a new entry for every job it hands out.
EntryAlwaysNew(jobs, a, fresh) == [id |-> JobIdString(fresh), appId |-> a]

\* TakeLastJob creates the entry of the job it hands out, or confirms the
\* entry that already references the application (spec 4.3).
EntryFor(jobs, a, fresh) ==
  IF \E e \in jobs : e.appId = a
  THEN CHOOSE e \in jobs : e.appId = a
  ELSE [id |-> JobIdString(fresh), appId |-> a]

\* TakeLastJob(writer): the outcomes of one call.  It selects the oldest
\* pending job atomically, registers its entry and serialises the archive;
\* serialisation can fail after any number of entries.
TakeLastJobOutcomes ==
  IF signJobs = <<>>
  THEN {[err |-> "notfound", sj |-> signJobs, rj |-> returnJobs,
         nid |-> nextJobId, archive |-> <<>>]}
  ELSE LET a == Head(signJobs)
           e == EntryFor(returnJobs, a, nextJobId)
           full == JobArchive(e.id, a)
           nid == IF e.id = JobIdString(nextJobId)
                  THEN nextJobId + 1 ELSE nextJobId
       IN {[err |-> "nil", sj |-> Tail(signJobs), rj |-> returnJobs \cup {e},
            nid |-> nid, archive |-> full]}
          \cup
          {[err |-> "other", sj |-> Tail(signJobs), rj |-> returnJobs \cup {e},
            nid |-> nid, archive |-> CutArchive(full, k, cut)] :
             k \in 0..(Len(full) - 1), cut \in BOOLEAN}

\* ------------------------------------------ two-factor relay (spec 4.4)
\* cli.go:236  strings.TrimSpace on the line read, which ends with "\n".
IsSpace(ch) == ch \in {" ", "\n"}

RECURSIVE TrimSpaceLeft(_)
TrimSpaceLeft(s) ==
  IF s # <<>> /\ IsSpace(Head(s)) THEN TrimSpaceLeft(Tail(s)) ELSE s

RECURSIVE TrimSpaceRight(_)
TrimSpaceRight(s) ==
  IF s # <<>> /\ IsSpace(s[Len(s)])
  THEN TrimSpaceRight(SubSeq(s, 1, Len(s) - 1)) ELSE s

TrimSpace(s) == TrimSpaceRight(TrimSpaceLeft(s))

\* The lines an operator types at the prompt.
Lines == { <<" ", "1", "2", "\n">>, <<"3", "4", "\n">>, <<" ", "\n">> }

NoCodes == [id \in {} |-> NoId]

\* TwoFactorCode.Load(): the code, "" while none is set.
Load(tf, id) == IF id \in DOMAIN tf THEN tf[id] ELSE NoId

\* A store that is not atomic: a reader can see the new value half written
\* over the old one.
StoredValueTorn(old, code) ==
  IF old # <<>> /\ code # <<>> THEN <<Head(code)>> \o Tail(old) ELSE code

\* TwoFactorCode.Store(code) replaces the value in one atomic step.
StoredValue(old, code) == code

Store(tf, id, code) ==
  LET v == StoredValue(Load(tf, id), code) IN
  IF v = NoId
  THEN [x \in DOMAIN tf \ {id} |-> tf[x]]
  ELSE [x \in DOMAIN tf \cup {id} |-> IF x = id THEN v ELSE tf[x]]

\* The slot is part of the entry and goes with it.
DropSlot(tf, id) == [x \in DOMAIN tf \ {id} |-> tf[x]]

\* ------------------------------------- integrated builder (spec 4.3, 9)
\* An install that replaces the closure and starts a worker on every call.
ShouldInstallAlways(cur) == TRUE

\* SetProcessJobFn installs the closure only when none is installed.
ShouldInstall(cur) == cur = NoFn

\* A signal that queues every call.
TriggerSendUnbounded(q) == q + 1

\* A signal that is dropped when nobody is receiving at that instant.
TriggerSendDropped(q) == q

\* Trigger: a non-blocking signal; an excess signal is dropped.
TriggerSend(q) == IF q < TriggerCap THEN q + 1 ELSE q

\* ------------------------------------------------------ worker locals
NoErr == [kind |-> "nil", output |-> <<>>]
Err(k) == [kind |-> k, output |-> <<>>]

\* An idle run reported as a failure.
ArchiveErrAlwaysError(e) == Err("take last job")

\* integrated_job.go:114-119  errNotFound means no job: the body returns
\* nil; any other error of TakeLastJob is returned.
ArchiveErrResult(e) == IF e = "notfound" THEN NoErr ELSE Err("take last job")

\* A script error built from the process error alone.
ScriptErrorNoOutput(output) == [kind |-> "sign script", output |-> <<>>]

\* integrated_job.go:298-300: the script error carries the captured output.
ScriptError(output) == [kind |-> "sign script", output |-> output]

Off == [pc |-> "off", archive |-> <<>>, returnJobId |-> NoId, appId |-> 0,
        proc |-> "none", signedIpa |-> FALSE, bundleTxt |-> FALSE,
        outputBuffer |-> <<>>, stored |-> FALSE, err |-> NoErr]
Idle == [Off EXCEPT !.pc = "idle"]

Outputs == { <<>>, <<"ERROR: cert expired">> }

AttemptPcs == {"take", "extract", "sandbox", "prepare", "wait",
               "store", "bundle", "delete", "failed"}
InAttempt(w) == wk[w].pc \in AttemptPcs

\* The entry deleted before the signed file is stored.
NextOnSuccessDeleteFirst(pc) ==
  CASE pc = "wait" -> "delete"
    [] pc = "delete" -> "store"
    [] pc = "store" -> "bundle"
    [] pc = "bundle" -> "ret"

\* integrated_job.go:294-336: the order of the steps after the entrypoint
\* has exited with status 0.
NextOnSuccess(pc) ==
  CASE pc = "wait" -> "store"
    [] pc = "store" -> "bundle"
    [] pc = "bundle" -> "delete"
    [] pc = "delete" -> "ret"

\* The sandbox removed at the end of the success path only.
SandboxKeptOnError(sb, w, e) == IF e = NoErr THEN sb \ {w} ELSE sb

\* integrated_job.go:149: defer os.RemoveAll(tempDir) runs when the inner
\* function returns, with or without an error.
SandboxAfterReturn(sb, w, e) == sb \ {w}

Streams == {"stdout", "stderr"}
DrainOff == [pc |-> "none", line |-> 0, off |-> 0]
NoMessages == [info |-> 0, ack |-> 0]

TypeOK ==
  /\ signJobs \in Seq(Apps)
  /\ \A e \in returnJobs : e.appId \in Apps
  /\ nextJobId \in Nat
  /\ signed \in [Apps -> BOOLEAN]
  /\ bundle \in [Apps -> BOOLEAN]
  /\ processJobFn \in {NoFn} \cup {{c} : c \in Callers}
  /\ triggerQ \in Nat
  /\ sandboxes \subseteq Workers

\* The codec at rest.
NotRun == <<"not run">>

CodecIdle ==
  /\ archiveBuffer = <<>>
  /\ extractedId = NotRun
  /\ jobReader = <<>>
  /\ tree = PreExisting
  /\ untarErr = "none"
  /\ attrs = PreAttrs
  /\ umask = {"gw", "ow"}
  /\ signFiles = NoSignFiles

InitSystem ==
  /\ signJobs = <<>>
  /\ returnJobs = {}
  /\ nextJobId = 1
  /\ signed = [a \in Apps |-> FALSE]
  /\ bundle = [a \in Apps |-> FALSE]
  /\ processJobFn = NoFn
  /\ triggerQ = 0
  /\ wk = [w \in Workers |-> Off]
  /\ sandboxes = {}
  /\ cst = [c \in Callers |-> [pc |-> "make", polls |-> 0, res |-> "none"]]
  /\ twoFactorCode = NoCodes

\* No entrypoint has been started.
RunnerIdle ==
  /\ cmdState = "none"
  /\ written = <<>>
  /\ pipe = [s \in Streams |-> <<>>]
  /\ pipeClosed = FALSE
  /\ drain = [s \in Streams |-> DrainOff]
  /\ capture = <<>>
  /\ runner = [pc |-> "none", err |-> NoErr]

\* No wait has begun.
WaitIdle ==
  /\ elapsed = 0
  /\ last2FACheck = 0
  /\ twoFAMessageShown = FALSE
  /\ logged = NoMessages

Init == InitSystem /\ CodecIdle /\ RunnerIdle /\ WaitIdle


\* ---------------------------------------------------- synchronous caller
\* cli.go:131  storage.Jobs.MakeSignJob(appId, profileId)
CallerMakeSignJob(c) ==
  /\ cst[c].pc = "make"
  /\ signJobs' = MakeSignJob(signJobs, c)
  /\ cst' = [cst EXCEPT ![c].pc = "setfn"]
  /\ UNCHANGED <<returnJobs, nextJobId, appVars, builderVars, wk, sandboxes>>
  /\ UNCHANGED <<twoFactorCode, codecVars, runnerVars, waitVars>>

\* cli.go:156-161  integrated.SetProcessJobFn(processFn): installs the
\* closure and starts the worker goroutine, once.
SetProcessJobFn(c) ==
  /\ cst[c].pc = "setfn"
  /\ IF ShouldInstall(processJobFn)
     THEN /\ processJobFn' = {c}
          /\ IF \E w \in Workers : wk[w].pc = "off"
             THEN LET w == CHOOSE v \in Workers :
                             /\ wk[v].pc = "off"
                             /\ \A u \in Workers : wk[u].pc = "off" => v <= u
                  IN wk' = [wk EXCEPT ![w] = Idle]
             ELSE wk' = wk
     ELSE UNCHANGED <<processJobFn, wk>>
  /\ cst' = [cst EXCEPT ![c].pc = "trigger"]
  /\ UNCHANGED <<storageVars, appVars, triggerQ, sandboxes>>
  /\ UNCHANGED <<twoFactorCode, codecVars, runnerVars, waitVars>>

\* cli.go:164-166  integrated.Trigger(); it returns no error.
Trigger(c) ==
  /\ cst[c].pc = "trigger"
  /\ triggerQ' = TriggerSend(triggerQ)
  /\ cst' = [cst EXCEPT ![c].pc = "poll"]
  /\ UNCHANGED <<storageVars, appVars, processJobFn, wk, sandboxes>>
  /\ UNCHANGED <<twoFactorCode, codecVars, runnerVars, waitVars>>

\* A loop that falls out of its deadline without the timeout error.
PollTimeoutAsSuccess(c) ==
  /\ cst[c].pc = "poll"
  /\ IF cst[c].polls >= MaxPolls
     THEN cst' = [cst EXCEPT ![c].pc = "done", ![c].res = "success"]
     ELSE IF GetByAppId(c) # {}
          THEN cst' = [cst EXCEPT ![c].polls = @ + 1]
          ELSE cst' = [cst EXCEPT ![c].pc = "signed"]
  /\ UNCHANGED <<storageVars, appVars, builderVars, wk, sandboxes>>
  /\ UNCHANGED <<twoFactorCode, codecVars, runnerVars, waitVars>>

\* A loop that gives up the job when its deadline elapses: it deletes the
\* entry it was waiting for.
PollCancelling(c) ==
  /\ cst[c].pc = "poll"
  /\ IF cst[c].polls >= MaxPolls
     THEN /\ cst' = [cst EXCEPT ![c].pc = "done", ![c].res = "timeout"]
          /\ returnJobs' = {e \in returnJobs : e.appId # c}
     ELSE /\ IF GetByAppId(c) # {}
             THEN cst' = [cst EXCEPT ![c].polls = @ + 1]
             ELSE cst' = [cst EXCEPT ![c].pc = "signed"]
          /\ UNCHANGED returnJobs
  /\ UNCHANGED <<signJobs, nextJobId, appVars, builderVars, wk, sandboxes>>
  /\ UNCHANGED <<twoFactorCode, codecVars, runnerVars, waitVars>>

\* cli.go:179-204, 221-224: the loop condition, GetByAppId, and the sleep
\* when the entry exists.  The code read from the entry (TwoFactorCode.Load,
\* line 189) decides only what is logged.
Poll(c) ==
  /\ cst[c].pc = "poll"
  /\ IF cst[c].polls >= MaxPolls
     THEN cst' = [cst EXCEPT ![c].pc = "done", ![c].res = "timeout"]
     ELSE IF GetByAppId(c) # {}
          THEN cst' = [cst EXCEPT ![c].polls = @ + 1]
          ELSE cst' = [cst EXCEPT ![c].pc = "signed"]
  /\ UNCHANGED <<storageVars, appVars, builderVars, wk, sandboxes>>
  /\ UNCHANGED <<twoFactorCode, codecVars, runnerVars, waitVars>>

\* cli.go:206-213  app.IsSigned(); the check itself can fail.
CheckSigned(c) ==
  /\ cst[c].pc = "signed"
  /\ \/ cst' = [cst EXCEPT ![c].pc = "done", ![c].res = "check signed status"]
     \/ /\ signed[c]
        /\ cst' = [cst EXCEPT ![c].pc = "done", ![c].res = "success"]
     \/ /\ ~signed[c]
        /\ cst' = [cst EXCEPT ![c].pc = "status"]
  /\ UNCHANGED <<storageVars, appVars, builderVars, wk, sandboxes>>
  /\ UNCHANGED <<twoFactorCode, codecVars, runnerVars, waitVars>>

\* A status check that looks at the queue entry only, not at the pending
\* jobs.
CheckStatusEntryOnly(c) ==
  /\ cst[c].pc = "status"
  /\ IF GetByAppId(c) = {}
     THEN cst' = [cst EXCEPT ![c].pc = "done", ![c].res = "not signed"]
     ELSE cst' = [cst EXCEPT ![c].pc = "poll", ![c].polls = @ + 1]
  /\ UNCHANGED <<storageVars, appVars, builderVars, wk, sandboxes>>
  /\ UNCHANGED <<twoFactorCode, codecVars, runnerVars, waitVars>>

\* cli.go:215-221  GetStatusByAppId, then the failure or the sleep.
CheckStatus(c) ==
  /\ cst[c].pc = "status"
  /\ LET st == GetStatusByAppId(c) IN
     IF ~st[1] /\ ~st[2]
     THEN cst' = [cst EXCEPT ![c].pc = "done", ![c].res = "not signed"]
     ELSE cst' = [cst EXCEPT ![c].pc = "poll", ![c].polls = @ + 1]
  /\ UNCHANGED <<storageVars, appVars, builderVars, wk, sandboxes>>
  /\ UNCHANGED <<twoFactorCode, codecVars, runnerVars, waitVars>>

CallerNext(c) ==
  \/ CallerMakeSignJob(c)
  \/ SetProcessJobFn(c)
  \/ Trigger(c)
  \/ Poll(c)
  \/ CheckSigned(c)
  \/ CheckStatus(c)

\* cli.go:228-245  Prompt2FA(appId): the line read from stdin is trimmed and
\* stored in the entry of the application, if there is one.  (A failed
\* read returns before anything is stored.)
Prompt2FA(a, line) ==
  /\ LET code == TrimSpace(line) IN
     IF GetByAppId(a) # {}
     THEN twoFactorCode' =
            Store(twoFactorCode, (CHOOSE e \in GetByAppId(a) : TRUE).id, code)
     ELSE twoFactorCode' = twoFactorCode
  /\ UNCHANGED <<storageVars, appVars, builderVars, wk, sandboxes, cst>>
  /\ UNCHANGED <<codecVars, runnerVars, waitVars>>

\* Trigger() called by another client of the installed builder (spec 4.3:
\* any number of callers, at any time).
OtherTrigger ==
  /\ processJobFn # NoFn
  /\ triggerQ' = TriggerSend(triggerQ)
  /\ UNCHANGED <<storageVars, appVars, processJobFn, wk, sandboxes, cst>>
  /\ UNCHANGED <<twoFactorCode, codecVars, runnerVars, waitVars>>

\* ------------------------------------------------------------- the worker
\* The worker goroutine of the builder: waits for a signal, runs the
\* installed closure once, and waits again (spec 4.3, 9).
WorkerWake(w) ==
  /\ wk[w].pc = "idle"
  /\ triggerQ > 0
  /\ triggerQ' = triggerQ - 1
  /\ wk' = [wk EXCEPT ![w].pc = "take"]
  /\ UNCHANGED <<storageVars, appVars, processJobFn, sandboxes, cst>>
  /\ UNCHANGED <<twoFactorCode, codecVars, runnerVars, waitVars>>

\* The inner function (integrated_job.go:144-336) returns the error e: the
\* deferred RemoveAll runs, then lines 338-345 follow.
InnerFail(w, rec, e) ==
  /\ wk' = [wk EXCEPT ![w] = [rec EXCEPT !.pc = "failed", !.err = e,
                                        !.signedIpa = FALSE,
                                        !.bundleTxt = FALSE]]
  /\ sandboxes' = SandboxAfterReturn(sandboxes, w, e)

\* A step of the success path is done; the inner function returns nil
\* after the last one.
InnerAdvance(w, rec) ==
  LET np == NextOnSuccess(rec.pc) IN
  /\ wk' = [wk EXCEPT ![w] =
       IF np = "ret"
       THEN [rec EXCEPT !.pc = np, !.signedIpa = FALSE, !.bundleTxt = FALSE]
       ELSE [rec EXCEPT !.pc = np]]
  /\ sandboxes' = IF np = "ret"
                  THEN SandboxAfterReturn(sandboxes, w, NoErr)
                  ELSE sandboxes

\* integrated_job.go:84-119  TakeLastJob into the pipe, the archive read
\* into memory.  The pipe is closed without an error, so the copy ends
\* with EOF and a failure of TakeLastJob is seen only in archiveErr.
TakeJob(w) ==
  /\ wk[w].pc = "take"
  /\ \E o \in TakeLastJobOutcomes :
       /\ signJobs' = o.sj
       /\ returnJobs' = o.rj
       /\ nextJobId' = o.nid
       /\ wk' = [wk EXCEPT ![w] =
            IF o.err # "nil"
            THEN [@ EXCEPT !.pc = "ret", !.archive = o.archive,
                           !.err = ArchiveErrResult(o.err)]
            ELSE [@ EXCEPT !.pc = "extract", !.archive = o.archive]]
  /\ UNCHANGED <<appVars, builderVars, sandboxes, cst>>
  /\ UNCHANGED <<twoFactorCode, codecVars, runnerVars, waitVars>>

\* integrated_job.go:121-132  the job id from the archive, the entry by id.
ExtractJob(w) ==
  /\ wk[w].pc = "extract"
  /\ LET id == extractJobIdFromArchive(wk[w].archive) IN
     wk' = [wk EXCEPT ![w] =
       IF id = Panic
       THEN [@ EXCEPT !.pc = "panicked"]
       ELSE IF id = NoId
       THEN [@ EXCEPT !.pc = "ret", !.err = Err("job id not found in archive")]
       ELSE IF GetById(id) = {}
            THEN [@ EXCEPT !.pc = "ret", !.returnJobId = id,
                           !.err = Err("return job not found")]
            ELSE [@ EXCEPT !.pc = "sandbox", !.returnJobId = id,
                           !.appId = (CHOOSE e \in GetById(id) : TRUE).appId]]
  /\ UNCHANGED <<storageVars, appVars, builderVars, sandboxes, cst>>
  /\ UNCHANGED <<twoFactorCode, codecVars, runnerVars, waitVars>>

\* integrated_job.go:145-154  os.MkdirTemp
MakeSandbox(w) ==
  /\ wk[w].pc = "sandbox"
  /\ \/ /\ wk' = [wk EXCEPT ![w].pc = "prepare"]
        /\ sandboxes' = sandboxes \cup {w}
     \/ InnerFail(w, wk[w], Err("make temp dir"))
  /\ UNCHANGED <<storageVars, appVars, builderVars, cst>>
  /\ UNCHANGED <<twoFactorCode, codecVars, runnerVars, waitVars>>

\* integrated_job.go:156-244  the sandbox is filled (sign files, archive,
\* unsigned.ipa of the application) and the entrypoint is started; every
\* step of it can fail.
PrepareErrors == {"copy sign files", "unpack", "app not found",
                  "copy unsigned.ipa", "start sign script"}

PrepareAndStart(w) ==
  /\ wk[w].pc = "prepare"
  /\ \/ /\ wk' = [wk EXCEPT ![w].pc = "wait", ![w].proc = "running"]
        /\ UNCHANGED sandboxes
     \/ \E k \in PrepareErrors : InnerFail(w, wk[w], Err(k))
  /\ UNCHANGED <<storageVars, appVars, builderVars, cst>>
  /\ UNCHANGED <<twoFactorCode, codecVars, runnerVars, waitVars>>

\* The external entrypoint: it writes its output and its result files to
\* the sandbox and exits (spec 6); the output is drained into the buffer.
EntrypointExit(w) ==
  /\ wk[w].proc = "running"
  /\ \E code \in {"exit0", "exit1"}, ipa \in BOOLEAN, bid \in BOOLEAN,
        out \in Outputs :
       wk' = [wk EXCEPT ![w].proc = code, ![w].signedIpa = ipa,
                        ![w].bundleTxt = bid, ![w].outputBuffer = out]
  /\ UNCHANGED <<storageVars, appVars, builderVars, sandboxes, cst>>
  /\ UNCHANGED <<twoFactorCode, codecVars, runnerVars, waitVars>>

\* integrated_job.go:141, 228  the job deadline ends the context; the
\* process is killed.
Deadline(w) ==
  /\ wk[w].proc = "running"
  /\ \E out \in Outputs :
       wk' = [wk EXCEPT ![w].proc = "killed", ![w].outputBuffer = out]
  /\ UNCHANGED <<storageVars, appVars, builderVars, sandboxes, cst>>
  /\ UNCHANGED <<twoFactorCode, codecVars, runnerVars, waitVars>>

\* integrated_job.go:294-301  cmd.Wait, <-outputDone
WaitEntrypoint(w) ==
  /\ wk[w].pc = "wait"
  /\ wk[w].proc \in {"exit0", "exit1", "killed"}
  /\ IF wk[w].proc = "exit0"
     THEN InnerAdvance(w, wk[w])
     ELSE InnerFail(w, wk[w], ScriptError(wk[w].outputBuffer))
  /\ UNCHANGED <<storageVars, appVars, builderVars, cst>>
  /\ UNCHANGED <<twoFactorCode, codecVars, runnerVars, waitVars>>

\* A store step that does not look for signed.ipa.
StoreSignedUnchecked(w) ==
  /\ wk[w].pc = "store"
  /\ signed' = [signed EXCEPT ![wk[w].appId] = TRUE]
  /\ InnerAdvance(w, [wk[w] EXCEPT !.stored = TRUE])
  /\ UNCHANGED <<storageVars, bundle, builderVars, cst>>
  /\ UNCHANGED <<twoFactorCode, codecVars, runnerVars, waitVars>>

\* integrated_job.go:303-319  signed.ipa must exist; app.SetFile("signed")
StoreSigned(w) ==
  /\ wk[w].pc = "store"
  /\ IF ~wk[w].signedIpa
     THEN /\ InnerFail(w, wk[w], Err("signed app not found"))
          /\ UNCHANGED signed
     ELSE \/ /\ signed' = [signed EXCEPT ![wk[w].appId] = TRUE]
             /\ InnerAdvance(w, [wk[w] EXCEPT !.stored = TRUE])
          \/ /\ InnerFail(w, wk[w], Err("set signed file"))
             /\ UNCHANGED signed
  /\ UNCHANGED <<storageVars, bundle, builderVars, cst>>
  /\ UNCHANGED <<twoFactorCode, codecVars, runnerVars, waitVars>>

\* integrated_job.go:321-328  bundle_id.txt, if there; a failure of
\* SetString is only logged.
StoreBundleId(w) ==
  /\ wk[w].pc = "bundle"
  /\ \/ /\ wk[w].bundleTxt
        /\ bundle' = [bundle EXCEPT ![wk[w].appId] = TRUE]
     \/ UNCHANGED bundle
  /\ InnerAdvance(w, wk[w])
  /\ UNCHANGED <<storageVars, signed, builderVars, cst>>
  /\ UNCHANGED <<twoFactorCode, codecVars, runnerVars, waitVars>>

\* integrated_job.go:330-336  DeleteById on the success path
DeleteReturnJob(w) ==
  /\ wk[w].pc = "delete"
  /\ returnJobs' = DeleteById(returnJobs, wk[w].returnJobId)
  /\ InnerAdvance(w, wk[w])
  /\ UNCHANGED <<signJobs, nextJobId, appVars, builderVars, cst>>
  /\ twoFactorCode' = DropSlot(twoFactorCode, wk[w].returnJobId)
  /\ UNCHANGED <<codecVars, runnerVars, waitVars>>

\* A failure path that puts the job back for another attempt.
FailCleanupRequeue(w) ==
  /\ wk[w].pc = "failed"
  /\ returnJobs' = DeleteById(returnJobs, wk[w].returnJobId)
  /\ signJobs' = MakeSignJob(signJobs, wk[w].appId)
  /\ wk' = [wk EXCEPT ![w].pc = "ret"]
  /\ UNCHANGED <<nextJobId, appVars, builderVars, sandboxes, cst>>
  /\ twoFactorCode' = DropSlot(twoFactorCode, wk[w].returnJobId)
  /\ UNCHANGED <<codecVars, runnerVars, waitVars>>

\* integrated_job.go:338-345  DeleteById on the failure path; the error
\* is returned.
FailCleanup(w) ==
  /\ wk[w].pc = "failed"
  /\ returnJobs' = DeleteById(returnJobs, wk[w].returnJobId)
  /\ wk' = [wk EXCEPT ![w].pc = "ret"]
  /\ UNCHANGED <<signJobs, nextJobId, appVars, builderVars, sandboxes, cst>>
  /\ twoFactorCode' = DropSlot(twoFactorCode, wk[w].returnJobId)
  /\ UNCHANGED <<codecVars, runnerVars, waitVars>>

\* The closure has returned; the worker logs the error and waits for the
\* next signal.
WorkerLoop(w) ==
  /\ wk[w].pc = "ret"
  /\ wk' = [wk EXCEPT ![w] = Idle]
  /\ UNCHANGED <<storageVars, appVars, builderVars, sandboxes, cst>>
  /\ UNCHANGED <<twoFactorCode, codecVars, runnerVars, waitVars>>

WorkerNext(w) ==
  \/ WorkerWake(w)
  \/ TakeJob(w)
  \/ ExtractJob(w)
  \/ MakeSandbox(w)
  \/ PrepareAndStart(w)
  \/ WaitEntrypoint(w)
  \/ StoreSigned(w)
  \/ StoreBundleId(w)
  \/ DeleteReturnJob(w)
  \/ FailCleanup(w)
  \/ WorkerLoop(w)

EntrypointNext(w) == EntrypointExit(w) \/ Deadline(w)

Next ==
  \/ \E c \in Callers : CallerNext(c)
  \/ \E w \in Workers : WorkerNext(w)
  \/ \E w \in Workers : EntrypointNext(w)

Spec == Init /\ [][Next]_vars

\* The goroutines are scheduled fairly and the entrypoint is bounded by
\* the job deadline.
LiveSpec ==
  /\ Spec
  /\ \A c \in Callers : WF_vars(CallerNext(c))
  /\ \A w \in Workers : WF_vars(WorkerNext(w))
  /\ \A w \in Workers : WF_vars(EntrypointNext(w))


\* ---------------------------------------------- the job queue on its own
\* The operations of the Job Queue (spec 4.3) under any interleaving:
\* enqueue, take-next, and delete by id.
QueueEnqueue(a) ==
  /\ signJobs' = MakeSignJob(signJobs, a)
  /\ UNCHANGED <<returnJobs, nextJobId, appVars, builderVars, wk, sandboxes, cst>>
  /\ UNCHANGED <<twoFactorCode, codecVars, runnerVars, waitVars>>

QueueTake ==
  /\ nextJobId <= MaxJobs
  /\ \E o \in TakeLastJobOutcomes :
       /\ signJobs' = o.sj
       /\ returnJobs' = o.rj
       /\ nextJobId' = o.nid
  /\ UNCHANGED <<appVars, builderVars, wk, sandboxes, cst>>
  /\ UNCHANGED <<twoFactorCode, codecVars, runnerVars, waitVars>>

QueueDelete(id) ==
  /\ returnJobs' = DeleteById(returnJobs, id)
  /\ UNCHANGED <<signJobs, nextJobId, appVars, builderVars, wk, sandboxes, cst>>
  /\ twoFactorCode' = DropSlot(twoFactorCode, id)
  /\ UNCHANGED <<codecVars, runnerVars, waitVars>>

JobIds == {JobIdString(n) : n \in 1..MaxJobs}

QueueNext ==
  \/ \E a \in Apps : QueueEnqueue(a)
  \/ QueueTake
  \/ \E id \in JobIds : QueueDelete(id)

QueueSpec == Init /\ [][QueueNext]_vars


\* The synchronous callers and the worker with further clients that
\* trigger the builder.
TriggerNext == Next \/ OtherTrigger

TriggerSpec == Init /\ [][TriggerNext]_vars

\* The synchronous callers and the worker with an operator at the prompt.
RelayNext == Next \/ \E a \in Apps, line \in Lines : Prompt2FA(a, line)

RelaySpec == Init /\ [][RelayNext]_vars

\* The synchronous caller on its own schedule: nothing is assumed about
\* the progress of the worker or of the entrypoint.
WaitSpec == Spec /\ \A c \in Callers : WF_vars(CallerNext(c))

\* ----------------------------------------------- the archive codec alone
MaxEntries == 2   \* entries of an archive handed to the codec

TarEntries ==
  { Entry("id.txt", <<" ", "7", " ">>, TRUE),
    Entry("id.txt", <<"7">>, FALSE),
    HugeEntry("id.txt"),
    Entry("job.txt", <<"x">>, TRUE),
    Entry("job.txt", <<"x">>, FALSE),
    WithMode(Entry("job.txt", <<"y">>, TRUE), Mode666),
    DirEntry("sub"),
    Entry("sub/a.txt", <<"x">>, TRUE),
    Entry("sub/../b.txt", <<"x">>, TRUE),
    Entry("../evil.txt", <<"x">>, TRUE),
    DirEntry("../../etc"),
    Entry("/abs.txt", <<"x">>, TRUE) }

Archives == UNION {[1..n -> TarEntries] : n \in 0..MaxEntries}

ArchiveInit ==
  /\ InitSystem
  /\ RunnerIdle
  /\ WaitIdle
  /\ archiveBuffer \in Archives
  /\ jobReader = archiveBuffer
  /\ extractedId = NotRun
  /\ umask \in Umasks
  /\ signFiles \in SignFileTrees
  /\ tree = TreeWith(signFiles)
  /\ attrs = AttrsWith(signFiles)
  /\ untarErr = "none"

\* integrated_job.go:122  extractJobIdFromArchive(&archiveBuffer)
ExtractId ==
  /\ extractedId = NotRun
  /\ extractedId' = extractJobIdFromArchive(archiveBuffer)
  /\ UNCHANGED <<archiveBuffer, jobReader, tree, untarErr, attrs, umask,
                 signFiles>>
  /\ UNCHANGED <<storageVars, appVars, builderVars, wk, sandboxes, cst,
                 twoFactorCode, runnerVars, waitVars>>

\* integrated_job.go:163-193  one turn of the loop over the tar reader.
UntarEntry ==
  /\ untarErr = "none"
  /\ IF jobReader = <<>>
     THEN /\ untarErr' = "EOF"
          /\ UNCHANGED <<jobReader, tree, attrs>>
     ELSE LET h == Head(jobReader)
              targetPath == Join(WorkDir, h.name)
              parent == Dir(targetPath)
              withParent == MkdirAll(tree, parent)
              attrsParent == AttrsMkdirAll(attrs, parent, Mode755, umask)
          IN
          \/ /\ ~h.complete          \* tr.Next() fails on the header
             /\ untarErr' = "read tar"
             /\ UNCHANGED <<jobReader, tree, attrs>>
          \/ /\ h.dir
             /\ IF MkdirAllOk(tree, targetPath)
                THEN /\ tree' = MkdirAll(tree, targetPath)
                     /\ attrs' = AttrsMkdirAll(attrs, targetPath, h.mode, umask)
                     /\ jobReader' = Tail(jobReader)
                     /\ UNCHANGED untarErr
                ELSE /\ untarErr' = "mkdir"
                     /\ UNCHANGED <<jobReader, tree, attrs>>
          \/ /\ ~h.dir
             /\ IF ~MkdirAllOk(tree, parent)
                THEN /\ untarErr' = "mkdir parent"
                     /\ UNCHANGED <<jobReader, tree, attrs>>
                ELSE IF ~OpenFileOk(withParent, attrsParent, targetPath)
                THEN /\ untarErr' = "create file"
                     /\ tree' = withParent
                     /\ attrs' = attrsParent
                     /\ UNCHANGED jobReader
                ELSE /\ tree' = withParent \cup {Node(targetPath, FALSE)}
                     /\ attrs' = AttrsWrite(AttrsOpenFile(attrsParent, targetPath,
                                                         h.mode, umask),
                                            targetPath, h)
                     /\ IF h.complete
                        THEN /\ jobReader' = Tail(jobReader)
                             /\ UNCHANGED untarErr
                        ELSE /\ untarErr' = "write file"
                             /\ UNCHANGED jobReader
  /\ UNCHANGED <<archiveBuffer, extractedId, umask, signFiles>>
  /\ UNCHANGED <<storageVars, appVars, builderVars, wk, sandboxes, cst,
                 twoFactorCode, runnerVars, waitVars>>

ArchiveNext == ExtractId \/ UntarEntry

ArchiveSpec == ArchiveInit /\ [][ArchiveNext]_vars


\* ======================================================== the claims
AfterTrigger == {"poll", "signed", "status", "done"}
Started == {w \in Workers : wk[w].pc # "off"}

\* C1: Wait Loop outcome.  A poll that finds no entry for A and finds A
\* signed returns success; a poll that finds no entry, A unsigned and no
\* job pending returns 'job completed but app is not signed'; success is
\* never returned in a state where A has no signed artifact, and that
\* failure never in a state where A has one.
C1_WaitLoopOutcome ==
  [][\A c \in Callers :
       LET s == cst[c]
           t == cst'[c]
       IN /\ (s.pc = "signed" /\ t.pc # "signed" /\ signed[c]
                /\ t.res # "check signed status") => t.res = "success"
          /\ (s.pc = "status" /\ t.pc # "status" /\ ~Pending(c)
                /\ GetByAppId(c) = {}) => t.res = "not signed"
          /\ (s.res # "success" /\ t.res = "success") => signed'[c]
          /\ (s.res # "not signed" /\ t.res = "not signed") => ~signed'[c]
    ]_vars

\* C2: single-flight worker.  At most one attempt of the worker body is
\* active at any instant, hence at most one sandbox and one running
\* entrypoint, whatever the callers and their triggers do.
C2_SingleFlight ==
  /\ Cardinality({w \in Workers : InAttempt(w)}) <= 1
  /\ Cardinality(sandboxes) <= 1
  /\ Cardinality({w \in Workers : wk[w].proc = "running"}) <= 1

\* A run is in progress, every caller has triggered, a further run is
\* signalled and a job is still waiting for it.
C2_Witness ==
  /\ \E w \in Workers : wk[w].pc = "wait" /\ wk[w].proc = "running"
  /\ \A c \in Callers : cst[c].pc \in AfterTrigger
  /\ triggerQ = 1
  /\ signJobs # <<>>

\* C3: at most one queue entry references a given application id, under
\* any interleaving of enqueue, take-next and delete.
C3_OneEntryPerApp ==
  \A e1 \in returnJobs, e2 \in returnJobs : e1.appId = e2.appId => e1 = e2

\* Every application has an entry, taken at least twice over, and is
\* queued once more.
C3_Witness ==
  /\ \A a \in Apps : GetByAppId(a) # {} /\ Pending(a)
  /\ nextJobId > NApps

\* C4: deletion ordering.  An entry is deleted only by the attempt that
\* works on it, after it stored the signed artifact or determined the
\* failure; once the entry of a successful attempt is gone the application
\* has its signed artifact.
C4_DeleteAfterStore ==
  /\ [](\A w \in Workers :
          (/\ wk[w].pc \in {"store", "bundle", "delete", "ret"}
           /\ wk[w].err = NoErr
           /\ wk[w].returnJobId # NoId
           /\ GetById(wk[w].returnJobId) = {}) => signed[wk[w].appId])
  /\ [][\A e \in returnJobs :
          e \notin returnJobs' =>
            \E w \in Workers :
              /\ wk[w].returnJobId = e.id
              /\ \/ wk[w].stored /\ signed[e.appId]
                 \/ wk[w].err # NoErr]_vars

\* A successful attempt has returned: its entry is gone, the app signed.
C4_Witness ==
  \E w \in Workers :
    /\ wk[w].pc = "ret"
    /\ wk[w].err = NoErr
    /\ wk[w].stored
    /\ GetById(wk[w].returnJobId) = {}
    /\ signed[wk[w].appId]

\* C5: cleanup on failure.  When an attempt returns an error and the job
\* id can be read from the archive bytes received, the entry with that id
\* has been deleted.
C5_CleanupOnFailure ==
  \A w \in Workers :
    (/\ wk[w].pc = "ret"
     /\ wk[w].err # NoErr
     /\ extractJobIdFromArchive(wk[w].archive) # NoId)
    => GetById(extractJobIdFromArchive(wk[w].archive)) = {}

\* C6: entrypoint failure.  After a non-zero exit or the deadline the
\* attempt returns the script error with the captured output, has written
\* no signed artifact, and has deleted the entry when it returns.
C6_EntrypointFailure ==
  \A w \in Workers :
    wk[w].proc \in {"exit1", "killed"} =>
      /\ wk[w].pc \in {"wait", "failed", "ret"}
      /\ ~wk[w].stored
      /\ wk[w].pc \in {"failed", "ret"} =>
           /\ wk[w].err.kind = "sign script"
           /\ wk[w].err.output = wk[w].outputBuffer
      /\ wk[w].pc = "ret" => GetById(wk[w].returnJobId) = {}

\* The entrypoint wrote the error and exited with status 1; the attempt
\* has returned and the application is unsigned.
C6_Witness ==
  \E w \in Workers :
    /\ wk[w].pc = "ret"
    /\ wk[w].proc = "exit1"
    /\ wk[w].err.output = <<"ERROR: cert expired">>
    /\ ~signed[wk[w].appId]

\* C7: sandbox lifetime.  A sandbox exists only between its creation and
\* the return of the inner function: none when the worker is not inside an
\* attempt, none when an attempt has failed or returned.
C7_SandboxLifetime ==
  \A w \in Workers :
    wk[w].pc \in {"off", "idle", "take", "extract", "sandbox", "failed", "ret"}
      => w \notin sandboxes

\* An attempt that had a sandbox failed and has returned.
C7_Witness ==
  \E w \in Workers :
    /\ wk[w].pc = "ret"
    /\ wk[w].err.kind \in PrepareErrors \cup {"sign script", "set signed file"}
    /\ sandboxes = {}


\* C8 as stated: no lost wake-up, and therefore every job enqueued before
\* a Trigger is eventually taken.
C8_EnqueuedJobTaken ==
  /\ [][\A c \in Callers : Trigger(c) => triggerQ' > 0]_vars
  /\ (triggerQ > 0) ~> (\E w \in Workers : wk[w].pc = "take")
  /\ \A c \in Callers :
       (cst[c].pc \in AfterTrigger /\ Pending(c)) ~> ~Pending(c)

\* C8 (amended): no lost wake-up.  Every Trigger leaves a run signalled,
\* also during a run; a signalled run is eventually started, and it is
\* consumed only by the start of a run; the run takes the oldest pending
\* job and no other.
C8_NoLostWakeup ==
  /\ [][\A c \in Callers : Trigger(c) => triggerQ' > 0]_vars
  /\ (triggerQ > 0) ~> (\E w \in Workers : wk[w].pc = "take")
  /\ [][triggerQ' < triggerQ =>
          \E w \in Workers : wk[w].pc = "idle" /\ wk'[w].pc = "take"]_vars
  /\ [][\A w \in Workers :
          (wk[w].pc = "take" /\ wk'[w].pc # "take" /\ signJobs # <<>>)
            => signJobs' = Tail(signJobs)]_vars

\* A run started after an earlier run had already taken a job.
C8_Witness ==
  \E w \in Workers : wk[w].pc = "take" /\ nextJobId > 1

\* C9: trigger coalescing.  However many triggers arrive, at most one
\* further run is pending, and a caller that is about to trigger can
\* always do so: Trigger does not block.
C9_TriggerCoalescing ==
  /\ triggerQ <= TriggerCap
  /\ \A c \in Callers : cst[c].pc = "trigger" => ENABLED Trigger(c)
  /\ \A c \in Callers : cst[c].res # "trigger builder"

\* Every caller has triggered before any run started: one run is pending.
C9_Witness ==
  /\ \A c \in Callers : cst[c].pc \in AfterTrigger
  /\ \A w \in Workers : wk[w].pc \in {"off", "idle"}
  /\ nextJobId = 1
  /\ triggerQ = 1

\* C10: install-once.  The first SetProcessJobFn installs the closure and
\* starts the one worker; later calls change neither.
C10_InstallOnce ==
  /\ [](/\ Cardinality(Started) <= 1
        /\ (processJobFn = NoFn) <=> (Started = {}))
  /\ [][processJobFn # NoFn =>
          /\ processJobFn' = processJobFn
          /\ {w \in Workers : wk'[w].pc # "off"} = Started]_vars

\* Every caller has made its SetProcessJobFn call.
C10_Witness ==
  /\ \A c \in Callers : cst[c].pc \notin {"make", "setfn"}
  /\ Cardinality(Started) = 1
  /\ processJobFn # NoFn


\* C11: idle run.  When take-next reports not-found the worker body
\* returns nil and changes nothing: no entry created or deleted, no sandbox,
\* no entrypoint, no application modified.
C11_IdleRun ==
  /\ [][\A w \in Workers :
          (wk[w].pc = "take" /\ wk'[w].pc # "take" /\ signJobs = <<>>) =>
            /\ wk'[w].pc = "ret"
            /\ wk'[w].err = NoErr
            /\ wk'[w].proc = wk[w].proc
            /\ UNCHANGED <<storageVars, appVars, sandboxes, twoFactorCode>>
       ]_vars
  /\ [](\A w \in Workers :
          (wk[w].pc = "ret" /\ wk[w].err = NoErr /\ wk[w].returnJobId = NoId)
            => /\ wk[w].proc = "none"
               /\ w \notin sandboxes
               /\ wk[w].archive = <<>>)

\* A run that found no job has returned, after an earlier run that had one.
C11_Witness ==
  \E w \in Workers :
    /\ wk[w].pc = "ret"
    /\ wk[w].err = NoErr
    /\ wk[w].returnJobId = NoId
    /\ nextJobId > 1

WaitPcs == {"poll", "signed", "status"}
ThreeOutcomes == {"success", "not signed", "timeout"}

\* C12 as stated: every run of the Wait Loop terminates, with exactly one
\* of success, 'completed but not signed' or timeout.
C12_ThreeOutcomes ==
  /\ \A c \in Callers : (cst[c].pc \in WaitPcs) ~> (cst[c].pc = "done")
  /\ [](\A c \in Callers : cst[c].pc = "done" => cst[c].res \in ThreeOutcomes)

\* C12 (amended): every run of the Wait Loop terminates, whatever the
\* worker does, with exactly one of success, 'completed but not signed',
\* timeout, or the error of the signed-status check; it returns nothing
\* before it ends, the result stays, and timeout is the result exactly
\* when the deadline had elapsed.
C12_WaitLoopTerminates ==
  /\ \A c \in Callers : (cst[c].pc \in WaitPcs) ~> (cst[c].pc = "done")
  /\ [](\A c \in Callers :
          /\ cst[c].pc = "done" =>
                /\ cst[c].res \in ThreeOutcomes \cup {"check signed status"}
                /\ cst[c].res = "timeout" <=> cst[c].polls >= MaxPolls
          /\ cst[c].pc # "done" => cst[c].res = "none")
  /\ [][\A c \in Callers : cst[c].pc = "done" => cst'[c] = cst[c]]_vars

\* A loop has timed out on an entry the worker never deleted: the attempt
\* is still waiting for its entrypoint.
C12_Witness ==
  \E c \in Callers, w \in Workers :
    /\ cst[c].res = "timeout"
    /\ wk[w].appId = c
    /\ wk[w].pc = "wait"
    /\ GetByAppId(c) # {}

\* C13: the Wait Loop is read-only.  While polling and when its deadline
\* elapses it creates or deletes no entry, writes no relay slot, modifies
\* no application and does not affect the worker; on timeout it only
\* returns the timeout error.
C13_WaitLoopReadOnly ==
  [][\A c \in Callers :
       (cst[c].pc \in WaitPcs /\ cst'[c] # cst[c]) =>
         /\ UNCHANGED <<storageVars, appVars, builderVars, twoFactorCode>>
         /\ UNCHANGED <<wk, sandboxes>>
         /\ \A d \in Callers \ {c} : cst'[d] = cst[d]
         /\ cst[c].polls >= MaxPolls /\ cst[c].pc = "poll" =>
               cst'[c] = [cst[c] EXCEPT !.pc = "done", !.res = "timeout"]
    ]_vars

\* A loop has timed out while the attempt for its application is running
\* and a code is set in the entry: entry, code and attempt are still there.
C13_Witness ==
  \E c \in Callers, w \in Workers :
    /\ cst[c].res = "timeout"
    /\ wk[w].appId = c
    /\ wk[w].proc = "running"
    /\ \E e \in GetByAppId(c) : Load(twoFactorCode, e.id) # NoId

\* The attempt for application a has stored the signed artifact and
\* returned nil.
Succeeded(a) ==
  \E w \in Workers :
    /\ wk[w].appId = a
    /\ wk[w].pc = "ret"
    /\ wk[w].err = NoErr
    /\ wk[w].stored

\* C14: eventual cleanup.  Every queue entry created by a take-next of the
\* worker is eventually deleted by the worker, whether the attempt succeeds
\* or fails and whether or not a Wait Loop still waits for it.
C14_EventualCleanup ==
  \A n \in 1..MaxJobs :
    (GetById(JobIdString(n)) # {}) ~> (GetById(JobIdString(n)) = {})

\* C15: end-to-end success.  When the job of application A is enqueued, the
\* builder triggered and the attempt for A succeeds, the Wait Loop polling
\* A eventually returns success, not timeout or failure (an error of the
\* signed-status check itself aside).
C15_EndToEndSuccess ==
  \A c \in Callers :
    Succeeded(c) ~> (cst[c].res \in {"success", "check signed status"})

Codes == {TrimSpace(line) : line \in Lines}

\* C16: relay atomicity.  Under any interleaving of set and get on the
\* same entry, a get returns the empty string or a value some set wrote in
\* full, never a mix of two values or a partial string; get does not
\* change the slot.
C16_RelayAtomic ==
  /\ [](\A e \in returnJobs : Load(twoFactorCode, e.id) \in Codes)
  /\ [][\A e \in returnJobs :
          (e \in returnJobs'
             /\ Load(twoFactorCode', e.id) # Load(twoFactorCode, e.id)) =>
            /\ \E line \in Lines :
                  Load(twoFactorCode', e.id) = TrimSpace(line)
            /\ UNCHANGED cst
       ]_vars
  /\ [][cst' # cst => twoFactorCode' = twoFactorCode]_vars

\* A second set has replaced the code of an entry whose Wait Loop has
\* read the slot and is polling on.
C16_Witness ==
  \E e \in returnJobs :
    /\ Load(twoFactorCode, e.id) = <<"3", "4">>
    /\ cst[e.appId].pc = "poll"
    /\ cst[e.appId].polls >= 1
    /\ \E w \in Workers : wk[w].returnJobId = e.id /\ wk[w].proc = "running"

\* C17: set-once relay.  The slot of an entry only moves from unset to
\* set: once get has returned a code for an entry, no later Prompt2FA or
\* set makes it return the empty value again for that entry.
C17_SetOnce ==
  [][\A e \in returnJobs :
       (e \in returnJobs' /\ Load(twoFactorCode, e.id) # NoId) =>
         Load(twoFactorCode', e.id) # NoId
    ]_vars

\* C18: idempotent delete.  delete-by-id returns true exactly when an
\* entry with that id existed and was removed by the call, false when it
\* is absent; two calls in a row for an existing id return true then
\* false, and the second leaves the queue unchanged.
C18_IdempotentDelete ==
  /\ [](\A id \in JobIds :
          LET r1 == DeleteByIdResult(returnJobs, id)
              j1 == DeleteById(returnJobs, id)
              r2 == DeleteByIdResult(j1, id)
              j2 == DeleteById(j1, id)
          IN /\ r1 \in BOOLEAN /\ r2 \in BOOLEAN
             /\ r1 <=> (GetById(id) # {})
             /\ r1 <=> (j1 # returnJobs)
             /\ j1 = returnJobs \ GetById(id)
             /\ ~r2
             /\ j2 = j1)
  /\ [][\A id \in JobIds :
          QueueDelete(id) =>
            /\ DeleteByIdResult(returnJobs, id) <=> (returnJobs' # returnJobs)
            /\ ~DeleteByIdResult(returnJobs', id)
       ]_vars

\* An entry has been deleted and another one is in the queue.
C18_Witness ==
  /\ nextJobId > Cardinality(returnJobs) + 1
  /\ returnJobs # {}

\* The entries unpacked so far.
Unpacked == SubSeq(archiveBuffer, 1, Len(archiveBuffer) - Len(jobReader))

\* C19: path-traversal safety.  Whatever the entry names ('..' components,
\* absolute names), unpacking creates or writes nothing outside the
\* sandbox; an entry whose name resolves outside the sandbox makes the
\* attempt fail instead of being written.
C19_PathTraversalSafe ==
  /\ \A n \in tree \ PreExisting : Inside(n.path)
  /\ \A i \in 1..Len(Unpacked) : Inside(Join(WorkDir, Unpacked[i].name))

\* The first complete entry named id.txt that the scan can reach.
RECURSIVE FirstIdPayload(_)
FirstIdPayload(ar) ==
  IF ar = <<>> THEN {}
  ELSE IF Head(ar).name = "id.txt"
       THEN IF Head(ar).complete THEN {Head(ar).payload} ELSE {}
       ELSE FirstIdPayload(Tail(ar))

\* C20: extractJobIdFromArchive never fails.  For every byte string
\* (empty, truncated, corrupted) it returns the empty string or the
\* complete trimmed payload of the first entry named id.txt; never a
\* partial id, and it never raises.
C20_ExtractNeverFails ==
  extractedId # NotRun =>
    /\ extractedId # Panic
    /\ \/ extractedId = NoId
       \/ \E pl \in FirstIdPayload(archiveBuffer) :
            extractedId = TrimWhitespace(pl)

\* pack(entries): an archive of whole entries with distinct, plain
\* relative names (spec 4.1).
IsPack(ar) ==
  /\ \A i \in 1..Len(ar) :
       /\ ar[i].complete /\ ~ar[i].huge
       /\ \A k \in 1..Len(Components(ar[i].name)) :
            Components(ar[i].name)[k] \notin {"", ".", ".."}
  /\ \A i, j \in 1..Len(ar) : ar[i].name = ar[j].name => i = j

\* C23: archive round-trip.  Packing a set of named entries and unpacking
\* the archive into an empty directory yields the same names, each with
\* the same permission bits and the same payload.
C23_RoundTrip ==
  (untarErr = "EOF" /\ IsPack(archiveBuffer) /\ signFiles = NoSignFiles) =>
    /\ \A i \in 1..Len(archiveBuffer) :
         LET e == archiveBuffer[i]
             q == Join(WorkDir, e.name)
         IN /\ Node(q, e.dir) \in tree
            /\ attrs[q].mode = e.mode
            /\ ~e.dir => attrs[q].data = e.payload
    /\ \A n \in tree \ PreExisting :
         ~n.dir => \E i \in 1..Len(archiveBuffer) :
                     Join(WorkDir, archiveBuffer[i].name) = n.path

\* C25: unpack overwrite.  After unpacking, the file at the path of every
\* file entry holds the entry's payload and has the entry's permission
\* bits, also when a file of that name was in the sandbox before (from the
\* sign files) with other content or permissions.
C25_UnpackOverwrite ==
  untarErr = "EOF" =>
    \A i \in 1..Len(archiveBuffer) :
      LET e == archiveBuffer[i]
          q == Join(WorkDir, e.name)
      IN (/\ ~e.dir
          /\ e.name \in DOMAIN signFiles
          /\ \A j \in (i + 1)..Len(archiveBuffer) :
               Join(WorkDir, archiveBuffer[j].name) # q)
         => attrs[q] = FileAttr(e.mode, e.payload)

-----------------------------------------------------------------------------
\* The process runner on its own (integrated_job.go:226-301): the
\* entrypoint process, its two output pipes, the two goroutines that drain
\* them into outputBuffer, and the goroutine that calls cmd.Wait.

MaxLines == 3

otherThanRunner ==
  <<storageVars, appVars, builderVars, wk, sandboxes, cst, twoFactorCode,
    codecVars, waitVars>>

\* integrated_job.go:242-246  right after cmd.Start: the process runs, the
\* drains scan, the runner is about to call cmd.Wait.
RunnerInit ==
  /\ InitSystem /\ CodecIdle /\ WaitIdle
  /\ cmdState = "running"
  /\ written = <<>>
  /\ pipe = [s \in Streams |-> <<>>]
  /\ pipeClosed = FALSE
  /\ drain = [s \in Streams |-> [DrainOff EXCEPT !.pc = "scan"]]
  /\ capture = <<>>
  /\ runner = [pc |-> "wait", err |-> NoErr]

\* The entrypoint writes its next line to one of its streams.
EntrypointWrite(s) ==
  /\ cmdState = "running"
  /\ Len(written) < MaxLines
  /\ LET line == Len(written) + 1
     IN /\ written' = Append(written, line)
        /\ pipe' = [pipe EXCEPT ![s] = Append(@, line)]
  /\ UNCHANGED <<cmdState, pipeClosed, drain, capture, runner>>
  /\ UNCHANGED otherThanRunner

\* The entrypoint exits by itself.
EntrypointExits(code) ==
  /\ cmdState = "running"
  /\ cmdState' = code
  /\ UNCHANGED <<written, pipe, pipeClosed, drain, capture, runner>>
  /\ UNCHANGED otherThanRunner

\* integrated_job.go:141-142, 228  the job deadline elapses while the
\* process runs: exec.CommandContext kills it.
RunnerDeadline ==
  /\ cmdState = "running"
  /\ cmdState' = "killed"
  /\ UNCHANGED <<written, pipe, pipeClosed, drain, capture, runner>>
  /\ UNCHANGED otherThanRunner

\* integrated_job.go:259, 281  scanner.Scan(): the next line, or the end of
\* the stream (the process is gone and the pipe is empty, or the read end
\* was closed under the reader).
DrainScan(s) ==
  /\ drain[s].pc = "scan"
  /\ IF pipeClosed
     THEN /\ drain' = [drain EXCEPT ![s].pc = "done"]
          /\ UNCHANGED pipe
     ELSE IF pipe[s] # <<>>
     THEN /\ drain' = [drain EXCEPT ![s].pc = "write",
                                    ![s].line = Head(pipe[s])]
          /\ pipe' = [pipe EXCEPT ![s] = Tail(@)]
     ELSE /\ cmdState # "running"
          /\ drain' = [drain EXCEPT ![s].pc = "done"]
          /\ UNCHANGED pipe
  /\ UNCHANGED <<cmdState, written, pipeClosed, capture, runner>>
  /\ UNCHANGED otherThanRunner

\* integrated_job.go:261, 283  multiWriter.Write enters bytes.Buffer.Write,
\* which reads the length of the buffer ...
DrainWriteBegin(s) ==
  /\ drain[s].pc = "write"
  /\ drain' = [drain EXCEPT ![s].pc = "copy", ![s].off = Len(capture)]
  /\ UNCHANGED <<cmdState, written, pipe, pipeClosed, capture, runner>>
  /\ UNCHANGED otherThanRunner

\* The buffer with a line copied in at the offset the writer read.
WriteAt(buf, off, line) ==
  [i \in 1..(IF Len(buf) > off THEN Len(buf) ELSE off + 1) |->
     IF i = off + 1 THEN line ELSE buf[i]]

\* ... and copies the line in at that offset.  No lock is held between
\* the two steps.
DrainWriteCommit(s) ==
  /\ drain[s].pc = "copy"
  /\ capture' = WriteAt(capture, drain[s].off, drain[s].line)
  /\ drain' = [drain EXCEPT ![s] = [DrainOff EXCEPT !.pc = "scan"]]
  /\ UNCHANGED <<cmdState, written, pipe, pipeClosed, runner>>
  /\ UNCHANGED otherThanRunner

\* integrated_job.go:294  cmd.Wait returns once the process is gone, and
\* closes the read ends of both pipes.
RunnerWait ==
  /\ runner.pc = "wait"
  /\ cmdState \in {"exit0", "exit1", "killed"}
  /\ pipeClosed' = TRUE
  /\ runner' = [pc |-> "outputDone",
                err |-> IF cmdState = "exit0" THEN NoErr
                        ELSE Err("sign script")]
  /\ UNCHANGED <<cmdState, written, pipe, drain, capture>>
  /\ UNCHANGED otherThanRunner

\* A runner that does not wait for the drains.
RunnerOutputDoneNoWait ==
  /\ runner.pc = "outputDone"
  /\ runner' = [pc |-> "returned",
                err |-> IF runner.err = NoErr THEN NoErr
                        ELSE ScriptError(capture)]
  /\ UNCHANGED <<cmdState, written, pipe, pipeClosed, drain, capture>>
  /\ UNCHANGED otherThanRunner

\* integrated_job.go:290-301  <-outputDone after both drains signalled,
\* then the error, with the captured output, or success.
RunnerOutputDone ==
  /\ runner.pc = "outputDone"
  /\ \A s \in Streams : drain[s].pc = "done"
  /\ runner' = [pc |-> "returned",
                err |-> IF runner.err = NoErr THEN NoErr
                        ELSE ScriptError(capture)]
  /\ UNCHANGED <<cmdState, written, pipe, pipeClosed, drain, capture>>
  /\ UNCHANGED otherThanRunner

DrainNext(s) == DrainScan(s) \/ DrainWriteBegin(s) \/ DrainWriteCommit(s)

RunnerNext ==
  \/ \E s \in Streams : EntrypointWrite(s)
  \/ \E code \in {"exit0", "exit1"} : EntrypointExits(code)
  \/ RunnerDeadline
  \/ \E s \in Streams : DrainNext(s)
  \/ RunnerWait
  \/ RunnerOutputDone

RunnerSpec == RunnerInit /\ [][RunnerNext]_vars

\* The goroutines of the runner are scheduled.
RunnerLiveSpec ==
  /\ RunnerSpec
  /\ \A s \in Streams : WF_vars(DrainNext(s))
  /\ WF_vars(RunnerWait)
  /\ WF_vars(RunnerOutputDone)

RunnerTypeOK ==
  /\ cmdState \in {"none", "running", "exit0", "exit1", "killed"}
  /\ written \in Seq(1..MaxLines)
  /\ \A s \in Streams :
       /\ pipe[s] \in Seq(1..MaxLines)
       /\ drain[s].pc \in {"none", "scan", "write", "copy", "done"}
       /\ drain[s].off <= Len(capture)
  /\ pipeClosed \in BOOLEAN
  /\ capture \in Seq(1..MaxLines)
  /\ runner.pc \in {"none", "wait", "outputDone", "returned"}

\* C21: process runner deadline.  When the runner has returned, the
\* process is no longer running and both drains have finished; and a
\* process killed at the job deadline leads to the runner returning a
\* failure.
C21_DeadlineEndsRun ==
  /\ [](runner.pc = "returned" =>
          /\ cmdState \in {"exit0", "exit1", "killed"}
          /\ \A s \in Streams : drain[s].pc = "done"
          /\ cmdState = "killed" => runner.err.kind = "sign script")
  /\ (cmdState = "killed") ~>
       (runner.pc = "returned" /\ runner.err.kind = "sign script")

C21_Witness ==
  /\ cmdState = "killed"
  /\ runner.pc = "returned"
  /\ written # <<>>

\* C22: drain completeness.  The runner returns only after both drains
\* have completed, and every line the process wrote before it exited is
\* then in the capture buffer.
C22_DrainComplete ==
  runner.pc = "returned" =>
    /\ \A s \in Streams : drain[s].pc = "done"
    /\ \A i \in 1..Len(written) :
         \E k \in 1..Len(capture) : capture[k] = written[i]

\* The lines a drain has read and written to the capture buffer.
Drained ==
  {l \in 1..Len(written) :
     \A s \in Streams :
       /\ \A k \in 1..Len(pipe[s]) : pipe[s][k] # l
       /\ ~(drain[s].pc \in {"write", "copy"} /\ drain[s].line = l)}

\* C28: the two drains never write to the shared capture buffer at the
\* same time, so that every drained line is in the buffer exactly once.
C28_DrainedOnce ==
  \A l \in Drained :
    Cardinality({k \in 1..Len(capture) : capture[k] = l}) = 1

\* C26: no retries.  A pending job for an application appears only when
\* a caller enqueues a sign request for it; a queue entry for it appears
\* only by the worker taking such a pending job; and the worker goes on
\* to the sandbox and the entrypoint only in an attempt that took a
\* pending job and found its entry.  A failed attempt puts nothing back.
C26_NoRetries ==
  [][ /\ \A a \in Apps :
           /\ (~Pending(a) /\ Pending(a)') =>
                (cst[a].pc = "make" /\ cst'[a].pc = "setfn")
           /\ (GetByAppId(a) = {} /\ GetByAppId(a)' # {}) =>
                (signJobs # <<>> /\ Head(signJobs) = a
                 /\ signJobs' = Tail(signJobs))
      /\ \A w \in Workers :
           /\ (wk[w].pc = "take" /\ wk'[w].pc = "extract") =>
                Len(signJobs') < Len(signJobs)
           /\ (wk[w].pc = "extract" /\ wk'[w].pc = "sandbox") =>
                GetByAppId(wk'[w].appId) # {}
           /\ (wk[w].pc = "failed" /\ wk'[w].pc = "ret") =>
                /\ signJobs' = signJobs
                /\ GetById(wk[w].returnJobId)' = {}
    ]_vars

\* An attempt has failed, nothing is queued for its application, and the
\* worker has been signalled to run again.
C26_Witness ==
  \E w \in Workers :
    /\ wk[w].pc = "ret"
    /\ wk[w].err # NoErr
    /\ wk[w].appId \in Apps
    /\ GetByAppId(wk[w].appId) = {}
    /\ ~Pending(wk[w].appId)
    /\ triggerQ > 0

\* C27: the signed artifact of an application is written only by a worker
\* in an attempt for that application's entry whose entrypoint exited with
\* status 0 and left signed.ipa; an exit 0 without signed.ipa fails the
\* attempt, the entry is deleted and the application stays unsigned; the
\* bundle id is written only after the signed artifact, and the bundle
\* step never fails the attempt.
C27_SignedOnlyOnSuccess ==
  /\ [](\A w \in Workers :
          (wk[w].pc = "ret" /\ wk[w].err.kind = "signed app not found") =>
            /\ GetById(wk[w].returnJobId) = {}
            /\ ~signed[wk[w].appId])
  /\ [][ /\ \A a \in Apps :
              /\ (~signed[a] /\ signed'[a]) =>
                   \E w \in Workers :
                     /\ wk[w].pc = "store" /\ wk[w].appId = a
                     /\ wk[w].proc = "exit0" /\ wk[w].signedIpa
                     /\ \E e \in GetById(wk[w].returnJobId) : e.appId = a
              /\ (~bundle[a] /\ bundle'[a]) => signed[a]
         /\ \A w \in Workers :
              /\ (wk[w].pc = "store" /\ ~wk[w].signedIpa /\ wk'[w] # wk[w])
                   => /\ wk'[w].pc = "failed"
                      /\ wk'[w].err.kind = "signed app not found"
                      /\ signed' = signed
              /\ (wk[w].pc = "bundle" /\ wk'[w] # wk[w]) =>
                   (wk'[w].pc = "delete" /\ wk'[w].err = NoErr)
       ]_vars

\* An attempt with exit status 0 and no signed.ipa has failed, and another
\* application has been signed.
C27_Witness ==
  /\ \E w \in Workers :
       wk[w].pc = "ret" /\ wk[w].err.kind = "signed app not found"
  /\ \E a \in Apps : signed[a]

-----------------------------------------------------------------------------
\* The wait loop with its clock (cli.go:170-225), from the moment the wait
\* begins with the entry of the application registered and the entrypoint
\* running, together with the operator's prompt and the rest of the
\* worker's attempt.

PollInterval == 500      \* milliseconds
CheckInterval == 2000
GracePeriod == 5000
MaxWaitTime == 9000      \* integrated.GetJobTimeout()

WaitCaller == 1
WaitWorker == 1

\* cli.go:174-177  the wait begins; the worker has taken the job and
\* started the entrypoint.
TwoFAStart ==
  /\ signJobs = <<>>
  /\ returnJobs = {[id |-> JobIdString(1), appId |-> WaitCaller]}
  /\ nextJobId = 2
  /\ signed = [a \in Apps |-> FALSE]
  /\ bundle = [a \in Apps |-> FALSE]
  /\ processJobFn = {WaitCaller}
  /\ triggerQ = 0
  /\ wk = [w \in Workers |->
            IF w = WaitWorker
            THEN [Idle EXCEPT !.pc = "wait",
                              !.archive = JobArchive(JobIdString(1), WaitCaller),
                              !.returnJobId = JobIdString(1),
                              !.appId = WaitCaller,
                              !.proc = "running"]
            ELSE Off]
  /\ sandboxes = {WaitWorker}
  /\ cst = [c \in Callers |->
             [pc |-> IF c = WaitCaller THEN "poll" ELSE "make",
              polls |-> 0, res |-> "none"]]
  /\ twoFactorCode = NoCodes

TwoFAInit == TwoFAStart /\ CodecIdle /\ RunnerIdle /\ WaitIdle

\* cli.go:179-204, 221-224  one turn of the loop: the deadline of the
\* wait, GetByAppId, the periodic look at the relay slot with its two
\* messages, the sleep.
WaitIteration(c) ==
  /\ cst[c].pc = "poll"
  /\ IF elapsed >= MaxWaitTime
     THEN /\ cst' = [cst EXCEPT ![c].pc = "done", ![c].res = "timeout"]
          /\ UNCHANGED waitVars
     ELSE IF GetByAppId(c) = {}
     THEN /\ cst' = [cst EXCEPT ![c].pc = "signed"]
          /\ UNCHANGED waitVars
     ELSE LET job == CHOOSE e \in GetByAppId(c) : TRUE
              code == Load(twoFactorCode, job.id)
              due == elapsed - last2FACheck >= CheckInterval
              info == due /\ code = NoId /\ ~twoFAMessageShown
                          /\ elapsed > GracePeriod
              ack == due /\ code # NoId /\ ~twoFAMessageShown
          IN /\ logged' = [info |-> logged.info + (IF info THEN 1 ELSE 0),
                           ack |-> logged.ack + (IF ack THEN 1 ELSE 0)]
             /\ twoFAMessageShown' = (twoFAMessageShown \/ info \/ ack)
             /\ last2FACheck' = IF due THEN elapsed ELSE last2FACheck
             /\ elapsed' = elapsed + PollInterval
             /\ UNCHANGED cst
  /\ UNCHANGED <<storageVars, appVars, builderVars, wk, sandboxes>>
  /\ UNCHANGED <<twoFactorCode, codecVars, runnerVars>>

TwoFANext ==
  \/ WaitIteration(WaitCaller)
  \/ CheckSigned(WaitCaller)
  \/ CheckStatus(WaitCaller)
  \/ \E line \in Lines : Prompt2FA(WaitCaller, line)
  \/ EntrypointExit(WaitWorker)
  \/ Deadline(WaitWorker)
  \/ WaitEntrypoint(WaitWorker)
  \/ StoreSigned(WaitWorker)
  \/ StoreBundleId(WaitWorker)
  \/ DeleteReturnJob(WaitWorker)
  \/ FailCleanup(WaitWorker)
  \/ WorkerLoop(WaitWorker)

TwoFASpec == TwoFAInit /\ [][TwoFANext]_vars

\* This turn of the loop looks at the relay slot.
TwoFACheck(c) ==
  /\ cst[c].pc = "poll"
  /\ elapsed < MaxWaitTime
  /\ GetByAppId(c) # {}
  /\ elapsed - last2FACheck >= CheckInterval

\* The slot of the application's entry holds a code.
SlotSet(c) ==
  \E e \in GetByAppId(c) : Load(twoFactorCode, e.id) # NoId

\* C24: wait loop 2FA messages.  In one wait the informational message
\* is emitted at most once, and only by a check that finds the slot unset
\* after the grace period; and a check that finds the slot set while the
\* entry exists leaves the acknowledgement emitted exactly once, also
\* when the informational message was emitted before.
C24_TwoFAMessages ==
  [][ /\ logged'.info <= 1
      /\ logged'.ack <= 1
      /\ logged'.info > logged.info =>
           /\ TwoFACheck(WaitCaller) /\ elapsed' # elapsed
           /\ ~SlotSet(WaitCaller)
           /\ elapsed > GracePeriod
      /\ (TwoFACheck(WaitCaller) /\ elapsed' # elapsed
          /\ SlotSet(WaitCaller)) => logged'.ack = 1
    ]_vars

====
